---- MODULE Spec2Model ----
(***************************************************************************)
(* Listing ingestion and upsert pipeline of real-estate-intelligence.      *)
(*                                                                         *)
(*   FundaDataProcessor.process_and_store  scrapers/funda/enhanced_scraper *)
(*   BatchProcessor.process_listing/flush  scrapers/funda/funda_scraper    *)
(*   EnhancedFundaScraper.validate_listing scrapers/funda/enhanced_scraper *)
(*   PropertyListing (table, constraints)  infrastructure/database/schema  *)
(*                                                                         *)
(* Python values are modelled as options: None is the empty tuple and a    *)
(* present value v is the 1-tuple <<v>>, so that None can be told from     *)
(* every string and every number (among them "" and 0).                    *)
(*                                                                         *)
(* The table carries the columns the writers' statements name and a claim  *)
(* reads: source, source_id, address, postal_code, city, price, size_m2,   *)
(* rooms, scraped_at.  url, property_type, listing_type are copied on      *)
(* insert like size_m2 and never touched afterwards; updated_at is set by  *)
(* the server on conflict and is not a listing field.  They are left out.  *)
(***************************************************************************)
EXTENDS Integers, Sequences, FiniteSets, TLC

VARIABLES
    writer,            \* which writer this run stores through
    property_listings, \* the table: the sequence of stored rows, in insertion order
    last_write,        \* history: per source_id, the listing of the last statement that succeeded
    ps_pc,             \* process_and_store: position of the one call in progress
    ps_listings,       \* process_and_store: its argument
    ps_i,              \* process_and_store: index of the listing the for loop is at
    ps_stats,          \* process_and_store: the stats dict
    ps_conn,           \* process_and_store: conn is open
    ps_ret,            \* process_and_store: what the last call returned or raised
    ps_before,         \* history: the table when the call in progress started
    ps_replay,         \* history: the call repeats the list of the call before it
    buffer,            \* BatchProcessor.buffer
    bp_pc,             \* BatchProcessor: position of the one call in progress
    bp_call,           \* BatchProcessor: the call in progress or last made
    bp_args,           \* flush: the tuples handed to conn.executemany
    bp_conn,           \* flush: conn is open
    bp_raising,        \* flush: an exception is propagating through finally
    bp_ret,            \* BatchProcessor: how the last call ended
    bp_before,         \* history: the table when executemany was called
    bp_added,          \* history: number of process_listing calls so far
    bp_handoffs,       \* history: per executemany call, the dicts handed over
    bp_auto,           \* history: number of flushes process_listing started
    bp_plain,          \* history: no explicit flush and no failure so far
    bp_replay,         \* history: executemany got the content it stored the last time
    bp_stored,         \* history: the last executemany call stored its batch
    v_listing,         \* validate_listing: its argument
    v_result,          \* validate_listing: its result
    p_fn,              \* price parsers: the function applied
    p_text,            \* price parsers: its argument
    p_result,          \* price parsers: its result
    c_pc,              \* collect_cbs_data: where the run is
    c_script,          \* what the CBS API answers to the requests to come
    c_requests,        \* number of requests made to the CBS API
    c_data,            \* collect_cbs_data_with_fallback: the frame returned
    c_stats,           \* collect_cbs_data: the summary returned
    s_pc,              \* scraping run: where the run is
    s_scraper,         \* scraping run: the class of the scraper
    s_max_pages,       \* scraping run: argument max_pages
    s_ncities,         \* scraping run: number of cities to scrape
    s_city,            \* index of the city being scraped
    s_page,            \* page of the city being fetched
    s_attempt,         \* attempts made so far by the fetch_page call in progress
    s_call,            \* attempts of the fetch_page call in progress, or of the last one
    s_requested,       \* pages of the city for which a request was sent
    s_pages,           \* how each page of the city ended
    s_all_listings,    \* number of listings collected for the city
    s_city_ret,        \* what the page loop of the city returned
    s_total,           \* number of listings counted in total_stats
    s_lost,            \* history: number of batches whose process_and_store raised
    s_ret,             \* what the run returned
    r_pc,              \* run_funda_scraper: where scrape_all is
    m_pc,              \* runs of two sources: started or not
    m_lists,           \* runs of two sources: per source, the listings its run writes
    m_i,               \* runs of two sources: per source, index of its next statement
    m_table,           \* runs of two sources: the table they write to
    q_buffer,          \* shared BatchProcessor: self.buffer, the listings by number
    q_pc,              \* shared BatchProcessor: per producer, position of its call
    q_args,            \* shared BatchProcessor: per producer, the tuples of its executemany
    q_raising,         \* shared BatchProcessor: per producer, an exception is propagating
    q_added,           \* shared BatchProcessor: number of process_listing calls so far
    q_handed,          \* history: the listings handed to some executemany call
    f_pc,              \* concurrent fetch_page calls: per task, where its call is
    f_attempt,         \* concurrent fetch_page calls: per task, number of its attempt
    f_sem              \* self.semaphore: the slots that are free

ps_vars == <<ps_pc, ps_listings, ps_i, ps_stats, ps_conn, ps_ret, ps_before, ps_replay>>

bp_vars == <<buffer, bp_pc, bp_call, bp_args, bp_conn, bp_raising, bp_ret,
             bp_before, bp_added, bp_handoffs, bp_auto, bp_plain, bp_replay,
             bp_stored>>

v_vars == <<v_listing, v_result>>

p_vars == <<p_fn, p_text, p_result>>

\* The variables of the scraping side, which no writer touches.
c_vars == <<c_pc, c_script, c_requests, c_data, c_stats>>

s_vars == <<s_pc, s_scraper, s_max_pages, s_ncities, s_city, s_page, s_attempt, s_call,
           s_requested, s_pages, s_all_listings, s_city_ret, s_total, s_lost, s_ret>>

r_vars == <<r_pc>>

\* The variables of the callers and of the concurrent uses.
m_vars == <<m_pc, m_lists, m_i, m_table>>

q_vars == <<q_buffer, q_pc, q_args, q_raising, q_added, q_handed>>

f_vars == <<f_pc, f_attempt, f_sem>>

x_vars == <<r_vars, m_vars, q_vars, f_vars>>

scrape_vars == <<p_vars, c_vars, s_vars, x_vars>>

\* The variables of the storing side.
store_vars == <<writer, property_listings, last_write, ps_vars, bp_vars>>

vars == <<store_vars, v_vars, scrape_vars>>

-----------------------------------------------------------------------------
(* Bounds of the model *)

\* number of distinct scrapes (price, size, rooms, time) of one listing
MaxSnap == 2

\* longest list handed to process_and_store
MaxBatch == 2

\* batch_size the BatchProcessor is constructed with
BatchSize == 2

\* number of process_listing calls of one run
MaxAdds == 4

\* number of executemany calls of one run
MaxHandoffs == 3

\* longest price text, apart from the documented examples
MaxText == 3

\* number of requests whose answer is scripted
MaxRequests == 3

\* most records in one answer of the CBS API
MaxRecords == 2

\* largest max_pages of a scraping run
MaxPages == 3

\* most cities of a scraping run
MaxCities == 2

\* number of tasks that call fetch_page on one scraper
MaxTasks == 3

\* max_concurrent the scraper is constructed with
max_concurrent == 2

-----------------------------------------------------------------------------
(* Values *)

None == <<>>

Some(v) == <<v>>

SourceIds == {"A", "B"}

\* What the s-th scrape of a listing saw: every field differs from one scrape
\* to the next.
Snapshot(s) ==
    [price      |-> Some(250000 + 100000 * s),
     size_m2    |-> Some(80 + 5 * s),
     rooms      |-> Some(2 + s),
     scraped_at |-> Some(s)]

\* The listing dict extract_listing_data / parse_search_page builds.
MkListing(sid, address, s) ==
    [source      |-> Some("funda"),
     source_id   |-> Some(sid),
     address     |-> address,
     postal_code |-> Some("1234AB"),
     city        |-> Some("amsterdam"),
     price       |-> Snapshot(s).price,
     size_m2     |-> Snapshot(s).size_m2,
     rooms       |-> Snapshot(s).rooms,
     scraped_at  |-> Snapshot(s).scraped_at]

\* The listings a caller hands to a writer: listing A as every scrape saw it
\* and once malformed (address None), and a second listing B.
ListingInputs ==
    {MkListing("A", Some("Test Address 123"), s) : s \in 1..MaxSnap}
        \cup {MkListing("A", None, 1), MkListing("B", Some("Test Address 123"), 1)}

RECURSIVE SeqsUpTo(_, _)
SeqsUpTo(S, n) ==
    IF n = 0 THEN {<<>>}
    ELSE LET shorter == SeqsUpTo(S, n - 1)
         IN  shorter \cup {Append(q, x) : q \in {p \in shorter : Len(p) = n - 1}, x \in S}

Batches == SeqsUpTo(ListingInputs, MaxBatch)

-----------------------------------------------------------------------------
(* Storage: the property_listings table *)

\* Variant: address is nullable.
NotNullColumns_NoAddress == {"source", "source_id", "postal_code", "city"}

\* Columns declared nullable=False.
NotNullColumns == {"source", "source_id", "address", "postal_code", "city"}

\* The statement fails on a NULL in a NOT NULL column; the check is made on the
\* tuple proposed for insertion, before the conflict arbiter is consulted.
ViolatesConstraint(l) == \E c \in NotNullColumns : l[c] = None

\* Variant: the index on source_id alone.
SameIdentity_SourceIdOnly(r, l) == r.source_id = l.source_id

\* idx_source_id: the unique index ON CONFLICT (source, source_id) arbitrates on.
SameIdentity(r, l) == r.source = l.source /\ r.source_id = l.source_id

Conflicting(t, l) == {i \in 1..Len(t) : SameIdentity(t[i], l)}

\* Variant: the SET list without price.
DoUpdateSet_KeepsPrice(r, l) == [r EXCEPT !.scraped_at = l.scraped_at]

\* Variant: the SET list with every mutable column.
DoUpdateSet_AllFields(r, l) ==
    [r EXCEPT !.price = l.price, !.size_m2 = l.size_m2, !.rooms = l.rooms,
              !.scraped_at = l.scraped_at]

\* DO UPDATE SET price = EXCLUDED.price, scraped_at = EXCLUDED.scraped_at
DoUpdateSet(r, l) == [r EXCEPT !.price = l.price, !.scraped_at = l.scraped_at]

\* VALUES ($1, ...): the row proposed for insertion, built from the dict's
\* entries by name.
Row(l) ==
    [source      |-> l.source,
     source_id   |-> l.source_id,
     address     |-> l.address,
     postal_code |-> l.postal_code,
     city        |-> l.city,
     price       |-> l.price,
     size_m2     |-> l.size_m2,
     rooms       |-> l.rooms,
     scraped_at  |-> l.scraped_at]

\* Variant: a plain INSERT, without the ON CONFLICT clause and its index.
Upsert_NoArbiter(t, l) == Append(t, Row(l))

\* INSERT ... VALUES (...) ON CONFLICT (source, source_id) DO UPDATE SET ...
\* of one listing that violates no constraint.
Upsert(t, l) ==
    IF Conflicting(t, l) = {}
    THEN Append(t, Row(l))
    ELSE [i \in 1..Len(t) |-> IF i \in Conflicting(t, l) THEN DoUpdateSet(t[i], l) ELSE t[i]]

\* The status string conn.execute returns: the command tag of an INSERT of one
\* row.  The tag counts the rows inserted or updated, so it is the same on
\* both branches of ON CONFLICT; the RETURNING column is not part of it.
ExecuteStatus(t, l) == "INSERT 0 1"

-----------------------------------------------------------------------------
(* FundaDataProcessor.process_and_store *)

ZeroStats == [inserted |-> 0, updated |-> 0, errors |-> 0]

\* Variant: conn.close() at the end of the try block.
ClosedInFinally_OnlyOnSuccess(raising) == ~raising

\* finally: await conn.close() runs whether the try block ended or an
\* exception is propagating out of it.
ClosedInFinally(raising) == TRUE

\* How a call of process_and_store ended.
NoCall == [kind |-> "none", stats |-> ZeroStats]

Returned(stats) == [kind |-> "returned", stats |-> stats]

Raised == [kind |-> "raised", stats |-> ZeroStats]

\* Variant: no early return.
EarlyReturn_Never(listings) == FALSE

\* if not listings: return {'inserted': 0, 'updated': 0, 'errors': 0}
EarlyReturn(listings) == listings = <<>>

\* if not listings: return zeros; else conn = await asyncpg.connect(...)
PS_Call(listings) ==
    /\ writer = "FundaDataProcessor"
    /\ ps_pc = "idle"
    /\ ps_listings' = listings
    /\ ps_replay' = (listings = ps_listings /\ ps_ret.kind = "returned")
    /\ ps_before' = property_listings
    /\ IF EarlyReturn(listings)
       THEN /\ ps_pc' = "idle"
            /\ ps_ret' = Returned(ZeroStats)
       ELSE /\ ps_pc' = "connect"
            /\ ps_ret' = NoCall
    /\ ps_i' = 1
    /\ ps_stats' = ZeroStats
    /\ UNCHANGED <<writer, property_listings, last_write, ps_conn, bp_vars, v_vars, scrape_vars>>

\* asyncpg.connect returns: stats is initialised and the try block is entered.
PS_Connect ==
    /\ ps_pc = "connect"
    /\ ps_conn' = TRUE
    /\ ps_stats' = ZeroStats
    /\ ps_i' = 1
    /\ ps_pc' = "loop"
    /\ UNCHANGED <<writer, property_listings, last_write, ps_listings, ps_ret, ps_before,
                   ps_replay, bp_vars, v_vars, scrape_vars>>

\* asyncpg.connect raises: it is outside the try, the call raises.
PS_ConnectFails ==
    /\ ps_pc = "connect"
    /\ ps_pc' = "idle"
    /\ ps_ret' = Raised
    /\ UNCHANGED <<writer, property_listings, last_write, ps_listings, ps_i, ps_stats,
                   ps_conn, ps_before, ps_replay, bp_vars, v_vars, scrape_vars>>

\* One iteration of `for listing in listings`: the statement, then the counter.
PS_StoreListing ==
    /\ ps_pc = "loop"
    /\ ps_i <= Len(ps_listings)
    /\ LET listing == ps_listings[ps_i]
       IN  IF ViolatesConstraint(listing)
           THEN \* except Exception: stats['errors'] += 1
                /\ ps_stats' = [ps_stats EXCEPT !.errors = @ + 1]
                /\ UNCHANGED <<property_listings, last_write>>
           ELSE /\ property_listings' = Upsert(property_listings, listing)
                /\ last_write' = [last_write EXCEPT ![listing.source_id[1]] = Some(Row(listing))]
                /\ IF ExecuteStatus(property_listings, listing) = "INSERT 0 1"
                   THEN ps_stats' = [ps_stats EXCEPT !.inserted = @ + 1]
                   ELSE ps_stats' = [ps_stats EXCEPT !.updated = @ + 1]
    /\ ps_i' = ps_i + 1
    /\ UNCHANGED <<writer, ps_pc, ps_listings, ps_conn, ps_ret, ps_before, ps_replay,
                   bp_vars, v_vars, scrape_vars>>

\* The loop is over: finally: await conn.close(); return stats
PS_Close ==
    /\ ps_pc = "loop"
    /\ ps_i > Len(ps_listings)
    /\ ps_conn' = IF ClosedInFinally(FALSE) THEN FALSE ELSE ps_conn
    /\ ps_ret' = Returned(ps_stats)
    /\ ps_pc' = "idle"
    /\ UNCHANGED <<writer, property_listings, last_write, ps_listings, ps_i, ps_stats,
                   ps_before, ps_replay, bp_vars, v_vars, scrape_vars>>

-----------------------------------------------------------------------------
(* BatchProcessor *)

\* The dict object process_listing receives on its n-th call: oid is the
\* object's identity, which tells two dicts of equal content apart.
WithOid(l, n) == [f \in DOMAIN l \cup {"oid"} |-> IF f = "oid" THEN n ELSE l[f]]

Oids(q) == [i \in 1..Len(q) |-> q[i].oid]

RECURSIVE UpsertAll(_, _)
\* The statement run once per tuple, in order.
UpsertAll(t, q) == IF q = <<>> THEN t ELSE UpsertAll(Upsert(t, Head(q)), Tail(q))

RECURSIVE LastWrites(_, _)
LastWrites(w, q) ==
    IF q = <<>> THEN w
    ELSE LastWrites([w EXCEPT ![Head(q).source_id[1]] = Some(Row(Head(q)))], Tail(q))

\* flush: `if not self.buffer: return`; otherwise it goes on to connect.
FlushEnter(buf) == buf # <<>>

\* Variant: > for >=.
ShouldFlush_Strict(buf) == Len(buf) > BatchSize

\* process_listing: `if len(self.buffer) >= self.batch_size`
ShouldFlush(buf) == Len(buf) >= BatchSize

\* The listing fields of the dicts of a batch, without the objects' identity.
Content(q) == [i \in 1..Len(q) |-> Row(q[i])]

\* Variant: insert(0, listing).
BufferAppend_Front(buf, l) == <<l>> \o buf

\* self.buffer.append(listing)
BufferAppend(buf, l) == Append(buf, l)

\* process_listing: self.buffer.append(listing); flush when the buffer has
\* reached batch_size.
BP_ProcessListing(l) ==
    /\ writer = "BatchProcessor"
    /\ bp_pc = "idle"
    /\ bp_added < MaxAdds
    /\ Len(bp_handoffs) < MaxHandoffs
    /\ bp_added' = bp_added + 1
    /\ buffer' = BufferAppend(buffer, WithOid(l, bp_added + 1))
    /\ bp_call' = "process_listing"
    /\ IF ShouldFlush(buffer') /\ FlushEnter(buffer')
       THEN /\ bp_pc' = "connect"
            /\ bp_auto' = bp_auto + 1
            /\ bp_ret' = None
       ELSE /\ bp_pc' = "idle"
            /\ bp_auto' = bp_auto
            /\ bp_ret' = Some("returned")
    /\ UNCHANGED <<bp_stored, writer, v_vars, scrape_vars, property_listings, last_write, ps_vars, bp_args, bp_conn,
                   bp_raising, bp_before, bp_handoffs, bp_plain, bp_replay>>

\* flush called by the caller of the BatchProcessor.
BP_Flush ==
    /\ writer = "BatchProcessor"
    /\ bp_pc = "idle"
    /\ Len(bp_handoffs) < MaxHandoffs
    /\ bp_call' = "flush"
    /\ bp_plain' = FALSE
    /\ IF FlushEnter(buffer)
       THEN /\ bp_pc' = "connect"
            /\ bp_ret' = None
       ELSE /\ bp_pc' = "idle"
            /\ bp_ret' = Some("returned")
    /\ UNCHANGED <<bp_stored, writer, v_vars, scrape_vars, property_listings, last_write, ps_vars, buffer, bp_args, bp_conn,
                   bp_raising, bp_before, bp_added, bp_handoffs, bp_auto, bp_replay>>

\* asyncpg.connect returns; the tuple list is built from self.buffer and
\* conn.executemany is called with it.
BP_Connect ==
    /\ bp_pc = "connect"
    /\ bp_conn' = TRUE
    /\ bp_args' = buffer
    /\ bp_replay' = (bp_stored /\ Content(buffer) = Content(bp_args))
    /\ bp_handoffs' = Append(bp_handoffs, Oids(buffer))
    /\ bp_before' = property_listings
    /\ bp_raising' = FALSE
    /\ bp_pc' = "executemany"
    /\ UNCHANGED <<bp_stored, writer, v_vars, scrape_vars, property_listings, last_write, ps_vars, buffer, bp_call, bp_ret,
                   bp_added, bp_auto, bp_plain>>

\* asyncpg.connect raises: it is outside the try; flush, and a process_listing
\* that called it, raise.
BP_ConnectFails ==
    /\ bp_pc = "connect"
    /\ bp_pc' = "idle"
    /\ bp_ret' = Some("raised")
    /\ bp_plain' = FALSE
    /\ UNCHANGED <<bp_stored, writer, v_vars, scrape_vars, property_listings, last_write, ps_vars, buffer, bp_call, bp_args,
                   bp_conn, bp_raising, bp_before, bp_added, bp_handoffs, bp_auto,
                   bp_replay>>

\* conn.executemany returns: every tuple's statement has run, in order, and
\* the buffer is replaced by an empty list.
BP_Executemany ==
    /\ bp_pc = "executemany"
    /\ \A i \in 1..Len(bp_args) : ~ViolatesConstraint(bp_args[i])
    /\ property_listings' = UpsertAll(property_listings, bp_args)
    /\ last_write' = LastWrites(last_write, bp_args)
    /\ buffer' = <<>>
    /\ bp_pc' = "close"
    /\ bp_stored' = TRUE
    /\ UNCHANGED <<writer, v_vars, scrape_vars, ps_vars, bp_call, bp_args, bp_conn, bp_raising, bp_ret,
                   bp_before, bp_added, bp_handoffs, bp_auto, bp_plain, bp_replay>>

\* conn.executemany raises, on a tuple that violates a constraint or on a
\* storage error: executemany is atomic, no tuple of the batch is stored, and
\* the assignment to self.buffer is skipped.
BP_ExecutemanyFails ==
    /\ bp_pc = "executemany"
    /\ bp_raising' = TRUE
    /\ bp_plain' = FALSE
    /\ bp_pc' = "close"
    /\ bp_stored' = FALSE
    /\ UNCHANGED <<writer, v_vars, scrape_vars, property_listings, last_write, ps_vars, buffer, bp_call, bp_args,
                   bp_conn, bp_ret, bp_before, bp_added, bp_handoffs, bp_auto,
                   bp_replay>>

\* finally: await conn.close(); then flush returns or goes on raising.
BP_Close ==
    /\ bp_pc = "close"
    /\ bp_conn' = IF ClosedInFinally(bp_raising) THEN FALSE ELSE bp_conn
    /\ bp_ret' = IF bp_raising THEN Some("raised") ELSE Some("returned")
    /\ bp_raising' = FALSE
    /\ bp_pc' = "idle"
    /\ UNCHANGED <<bp_stored, writer, v_vars, scrape_vars, property_listings, last_write, ps_vars, buffer, bp_call, bp_args,
                   bp_before, bp_added, bp_handoffs, bp_auto, bp_plain, bp_replay>>

-----------------------------------------------------------------------------
(* EnhancedFundaScraper.validate_listing *)

\* dict.get: the entry, or None when the key is missing.
Get(d, k) == IF k \in DOMAIN d THEN d[k] ELSE None

\* Truth value of a string or None: None and "" are false.
TruthyStr(v) == v # None /\ v # Some("")

\* Truth value of a number or None: None and 0 are false.
TruthyNum(v) == v # None /\ v # Some(0)

\* Variant: city is not required.
required_fields_NoCity == {"source_id", "address"}

required_fields == {"source_id", "address", "city"}

MinPrice == 50000

MaxPrice == 5000000

validate_listing(listing) ==
    IF \E field \in required_fields : ~TruthyStr(Get(listing, field))
    THEN FALSE
    ELSE LET price == Get(listing, "price")
         IN  IF TruthyNum(price) /\ (price[1] < MinPrice \/ price[1] > MaxPrice)
             THEN FALSE
             ELSE TRUE

\* The dicts validate_listing is applied to: each required field missing,
\* None, empty or present; price missing, None, or a number at and around
\* zero and the two thresholds; size_m2 None or present.
StrValues == {None, Some(""), Some("x")}

PriceValues ==
    {None} \cup {Some(p) : p \in {0 - 1, 0, 1, MinPrice - 1, MinPrice, MinPrice + 1,
                                   MaxPrice - 1, MaxPrice, MaxPrice + 1}}

ValidateFields == {"source_id", "address", "city", "price", "size_m2"}

FullDicts ==
    {[f \in ValidateFields |->
         CASE f = "source_id" -> a
           [] f = "address"   -> b
           [] f = "city"      -> c
           [] f = "price"     -> p
           [] f = "size_m2"   -> z] :
       a \in StrValues, b \in StrValues, c \in StrValues, p \in PriceValues,
       z \in {None, Some(85)}}

ValidateInputs ==
    {[f \in D |-> d[f]] : d \in FullDicts, D \in SUBSET ValidateFields}

Validate(listing) ==
    /\ v_listing' = listing
    /\ v_result' = validate_listing(listing)
    /\ UNCHANGED <<store_vars, scrape_vars>>

-----------------------------------------------------------------------------
(* Price parsers: EnhancedFundaScraper.parse_price_text, FundaScraper.parse_price *)

(* A text is the sequence of its characters.  A float is the pair of a      *)
(* mantissa m and a number e of decimals, m / 10^e, with no trailing zero   *)
(* decimal, so that equal numbers are equal pairs: 12.50 is <<125, 1>>.     *)

DigitChars == <<"0", "1", "2", "3", "4", "5", "6", "7", "8", "9">>

Digits == {DigitChars[i] : i \in 1..Len(DigitChars)}

DigitVal(c) == (CHOOSE i \in 1..Len(DigitChars) : DigitChars[i] = c) - 1

Whitespace == {" "}

RECURSIVE DigitsValue(_)
DigitsValue(q) ==
    IF q = <<>> THEN 0
    ELSE DigitsValue(SubSeq(q, 1, Len(q) - 1)) * 10 + DigitVal(q[Len(q)])

RECURSIVE Normal(_, _)
Normal(m, e) == IF e > 0 /\ m % 10 = 0 THEN Normal(m \div 10, e - 1) ELSE <<m, e>>

Count(q, c) == Cardinality({i \in 1..Len(q) : q[i] = c})

\* str.strip(): without the whitespace at both ends.
Strip(q) ==
    LET inner == {i \in 1..Len(q) : q[i] \notin Whitespace}
    IN  IF inner = {} THEN <<>>
        ELSE SubSeq(q, CHOOSE i \in inner : \A j \in inner : i <= j,
                       CHOOSE i \in inner : \A j \in inner : i >= j)

\* str.replace(c, ''), for one character c.
Remove(q, c) == SelectSeq(q, LAMBDA x : x # c)

\* str.replace(c, d), for characters c and d.
Replace(q, c, d) == [i \in 1..Len(q) |-> IF q[i] = c THEN d ELSE q[i]]

RECURSIVE RemoveSub(_, _)
\* str.replace(pat, ''), for a text pat: leftmost occurrences, not overlapping.
RemoveSub(q, pat) ==
    IF Len(q) < Len(pat) THEN q
    ELSE IF SubSeq(q, 1, Len(pat)) = pat
         THEN RemoveSub(SubSeq(q, Len(pat) + 1, Len(q)), pat)
         ELSE <<Head(q)>> \o RemoveSub(Tail(q), pat)

\* float(q) does not raise ValueError: within the characters of the model, q
\* is, between whitespace, digits with at most one point and at least one digit.
IsFloatLiteral(q) ==
    LET t == Strip(q)
    IN  /\ \A i \in 1..Len(t) : t[i] \in Digits \cup {"."}
        /\ Count(t, ".") <= 1
        /\ \E i \in 1..Len(t) : t[i] \in Digits

\* float(q) of a literal.
FloatOf(q) ==
    LET t == Strip(q)
        dots == {i \in 1..Len(t) : t[i] = "."}
        e == IF dots = {} THEN 0 ELSE Len(t) - (CHOOSE i \in dots : TRUE)
    IN  Normal(DigitsValue(Remove(t, ".")), e)

\* Variant: \w for \d, letters are kept too.
KeepPriceChars_Word(price_text) ==
    SelectSeq(price_text, LAMBDA c : c \in Digits \cup {",", ".", "k"})

\* re.sub(r'[^\d,.]', '', price_text)
KeepPriceChars(price_text) == SelectSeq(price_text, LAMBDA c : c \in Digits \cup {",", "."})

\* price_clean.replace('.', '').replace(',', '.')
DutchToPoint(price_clean) == Replace(Remove(price_clean, "."), ",", ".")

\* price_clean.split('.')[1], when there is a point: the text between the
\* first point and the next (or the end).
SecondPart(q) ==
    LET dots == {i \in 1..Len(q) : q[i] = "."}
        first == CHOOSE i \in dots : \A j \in dots : i <= j
        later == {i \in dots : i > first}
        next == IF later = {} THEN Len(q) + 1
                ELSE CHOOSE i \in later : \A j \in later : i <= j
    IN  SubSeq(q, first + 1, next - 1)

\* float(x), with ValueError caught: None.
FloatOrNone(q) == IF IsFloatLiteral(q) THEN Some(FloatOf(q)) ELSE None

parse_price_text(price_text) ==
    LET price_clean == DutchToPoint(KeepPriceChars(price_text))
    IN  IF Count(price_clean, ".") > 0
        THEN IF Count(price_clean, ".") + 1 = 2 /\ Len(SecondPart(price_clean)) <= 2
             THEN FloatOrNone(price_clean)
             ELSE FloatOrNone(Remove(price_clean, "."))
        ELSE FloatOrNone(price_clean)

\* FundaScraper.parse_price: the replacements in the order written, then
\* float, with every exception caught.
parse_price(price_text) ==
    LET price == RemoveSub(Remove(Remove(price_text, "€"), "."), <<"k", ".", "k", ".">>)
    IN  FloatOrNone(Replace(Strip(price), ",", "."))

\* The documented example, '€ 425.000 k.k.'
DutchExample == <<"€", " ", "4", "2", "5", ".", "0", "0", "0", " ", "k", ".", "k", ".">>

ExampleTexts ==
    {DutchExample,
     <<"1", "2", ".", "5", "0">>,
     <<"1", "2", ",", "5", "0">>,
     <<"4", "2", "5", ".", "0", "0", "0">>,
     <<"€", " ", "1", ".", "2", "5", "0", ".", "0", "0", "0", " ", "k", ".", "k", ".">>}

TextChars == {"0", "2", "5", ".", ",", " ", "€", "k"}

PriceTexts == SeqsUpTo(TextChars, MaxText) \cup ExampleTexts

\* One application of a parser to a text.
ParsePriceText(text) ==
    /\ p_fn = "none"
    /\ p_fn' = "parse_price_text"
    /\ p_text' = text
    /\ p_result' = parse_price_text(text)
    /\ UNCHANGED <<store_vars, v_vars, c_vars, s_vars, x_vars>>

ParsePrice(text) ==
    /\ p_fn = "none"
    /\ p_fn' = "parse_price"
    /\ p_text' = text
    /\ p_result' = parse_price(text)
    /\ UNCHANGED <<store_vars, v_vars, c_vars, s_vars, x_vars>>

-----------------------------------------------------------------------------
(* CBSRealEstateCollector, collect_cbs_data *)

(* An answer of the CBS API to one GET: a response with a status and a body, *)
(* or an exception of the client (no connection, timeout).  The body of a    *)
(* 200 is JSON with so many records under 'value', or cannot be read.        *)

HttpResponse(status, body) == [kind |-> "response", status |-> status, body |-> body]

ClientException == [kind |-> "exception", status |-> 0, body |-> 0]

Unreadable == 0 - 1

Statuses == {200, 404, 429, 500}

Answers ==
    {HttpResponse(200, n) : n \in 0..MaxRecords}
        \cup {HttpResponse(200, Unreadable)}
        \cup {HttpResponse(st, 0) : st \in Statuses \ {200}}
        \cup {ClientException}

AnswerScripts == [1..MaxRequests -> Answers]

\* pd.DataFrame of n records that all carry the same 'source'.
DataFrame(n, source) == [rows |-> n, source |-> IF n = 0 THEN "" ELSE source]

EmptyFrame == DataFrame(0, "")

\* Variant: every response counts, whatever its status.
test_api_connection_AnyResponse(answer) == answer.kind = "response"

\* test_api_connection: True for status 200, False for every other answer.
test_api_connection(answer) == answer.kind = "response" /\ answer.status = 200

\* fetch_sample_house_data.  An exception inside the try block reaches
\* `except aiohttp.ClientTimeout`, which names a class that is no exception:
\* matching it raises TypeError, and that leaves the function.
fetch_sample_house_data(answer) ==
    IF answer.kind = "exception" THEN [kind |-> "raised", frame |-> EmptyFrame]
    ELSE IF answer.status = 200
         THEN IF answer.body = Unreadable THEN [kind |-> "raised", frame |-> EmptyFrame]
              ELSE [kind |-> "returned", frame |-> DataFrame(answer.body, "cbs_test")]
         ELSE [kind |-> "returned", frame |-> EmptyFrame]

regions == <<"Amsterdam", "Rotterdam", "Utrecht", "Den Haag", "Eindhoven">>

periods == <<"2023JJ00", "2022JJ00", "2021JJ00", "2020JJ00">>

\* Variant: nothing to generate from.
generate_mock_cbs_data_Empty == DataFrame(0, "cbs_mock")

\* generate_mock_cbs_data: one record for each region and period.
generate_mock_cbs_data == DataFrame(Len(regions) * Len(periods), "cbs_mock")

\* Variant: what was fetched is returned as it is.
FallbackIfEmpty_Never(fetched) == fetched.frame

\* collect_cbs_data_with_fallback, after the fetch: lines 208-220.
FallbackIfEmpty(fetched) ==
    IF fetched.kind = "returned" /\ fetched.frame.rows > 0
    THEN fetched.frame
    ELSE generate_mock_cbs_data

\* collect_cbs_data: the summary of a frame.
SummaryStats(cbs_data) ==
    [records_collected |-> cbs_data.rows,
     data_source |-> IF cbs_data.rows > 0 THEN cbs_data.source ELSE "none"]

\* collect_cbs_data is called: the collector is entered.
CBS_Start(script) ==
    /\ c_pc = "idle"
    /\ c_pc' = "probe"
    /\ c_script' = script
    /\ UNCHANGED <<c_requests, c_data, c_stats>>
    /\ UNCHANGED <<store_vars, v_vars, p_vars, s_vars, x_vars>>

\* collect_cbs_data_with_fallback, up to the first answer: test_api_connection,
\* and the mock data when the API is not available.
CBS_Probe ==
    /\ c_pc = "probe"
    /\ c_requests' = c_requests + 1
    /\ IF test_api_connection(c_script[c_requests + 1])
       THEN c_pc' = "fetch" /\ UNCHANGED c_data
       ELSE c_pc' = "stats" /\ c_data' = generate_mock_cbs_data
    /\ UNCHANGED <<c_script, c_stats>>
    /\ UNCHANGED <<store_vars, v_vars, p_vars, s_vars, x_vars>>

\* collect_cbs_data_with_fallback, from the second answer on.
CBS_Fetch ==
    /\ c_pc = "fetch"
    /\ c_requests' = c_requests + 1
    /\ c_data' = FallbackIfEmpty(fetch_sample_house_data(c_script[c_requests + 1]))
    /\ c_pc' = "stats"
    /\ UNCHANGED <<c_script, c_stats>>
    /\ UNCHANGED <<store_vars, v_vars, p_vars, s_vars, x_vars>>

\* collect_cbs_data, after the collection.
CBS_Stats ==
    /\ c_pc = "stats"
    /\ c_stats' = Some(SummaryStats(c_data))
    /\ c_pc' = "done"
    /\ UNCHANGED <<c_script, c_requests, c_data>>
    /\ UNCHANGED <<store_vars, v_vars, p_vars, s_vars, x_vars>>

-----------------------------------------------------------------------------
(* EnhancedFundaScraper, FundaScraper: fetch_page, the page loop, the city loop *)

(* The answer of the site to one request: status 200 and a page on which     *)
(* parse_search_page finds so many listings, an error status, or no answer   *)
(* within the timeout (status 0).                                            *)

Page(n) == [status |-> 200, listings |-> n]

ErrorStatus(st) == [status |-> st, listings |-> 0]

Timeout == [status |-> 0, listings |-> 0]

\* a page without listings, a page with one
PageListings == {0, 1}

PageAnswers ==
    {Page(n) : n \in PageListings} \cup {ErrorStatus(st) : st \in {404, 429, 500}} \cup {Timeout}

Scrapers == {"EnhancedFundaScraper", "FundaScraper"}

\* The exception an attempt of fetch_page ends with, "" for none: the two
\* classes raise aiohttp.ClientError for 429 (the first by its own raise, the
\* second by raise_for_status) and for every status from 400 on; a timeout is
\* asyncio.TimeoutError.
AttemptRaises(answer) ==
    IF answer.status = 0 THEN "TimeoutError"
    ELSE IF answer.status >= 400 THEN "ClientError"
    ELSE ""

\* The classes that `except Exception` catches.
ExceptionClasses == {"ClientError", "TimeoutError", "RetryError"}

\* A 4xx other than 429.
IsPermanent(answer) == answer.status >= 400 /\ answer.status < 500 /\ answer.status # 429

\* stop=stop_after_attempt(3)
StopAfterAttempt == 3

WaitMultiplier == 1

WaitMin == 4

WaitMax == 10

Max2(a, b) == IF a >= b THEN a ELSE b

Min2(a, b) == IF a <= b THEN a ELSE b

RECURSIVE Pow2(_)
Pow2(n) == IF n <= 0 THEN 1 ELSE 2 * Pow2(n - 1)

\* Variant: no lower limit.
wait_exponential_NoMin(attempt_number) ==
    Max2(0, Min2(WaitMultiplier * Pow2(attempt_number - 1), WaitMax))

\* tenacity.wait_exponential(multiplier=1, min=4, max=10): the seconds slept
\* after the attempt of that number failed.
wait_exponential(attempt_number) ==
    Max2(Max2(0, WaitMin), Min2(WaitMultiplier * Pow2(attempt_number - 1), WaitMax))

\* self.request_delay, slept before every request of EnhancedFundaScraper
request_delay == 2

\* await asyncio.sleep(10), on status 429 in EnhancedFundaScraper
RateLimitSleep == 10

\* Variant: the sleep is outside the test of the status.
SleepBeforeRaise_AnyStatus(scraper, answer) ==
    IF scraper = "EnhancedFundaScraper" THEN RateLimitSleep ELSE 0

\* The seconds fetch_page itself sleeps before it raises for this answer.
SleepBeforeRaise(scraper, answer) ==
    IF scraper = "EnhancedFundaScraper" /\ answer.status = 429 THEN RateLimitSleep ELSE 0

\* The seconds slept between the start of a retry and its request.
SleepBeforeRequest(scraper) ==
    IF scraper = "EnhancedFundaScraper" THEN request_delay ELSE 0

\* One attempt as recorded: its answer, whether a retry follows, the wait of
\* the retry policy (0 when it gives up), and all the seconds between the
\* answer and the next request, or the giving up.
AttemptRecord(scraper, attempt_number, answer) ==
    LET retried == AttemptRaises(answer) # "" /\ attempt_number < StopAfterAttempt
        wait == IF retried THEN wait_exponential(attempt_number) ELSE 0
    IN  [answer |-> answer,
         retried |-> retried,
         wait |-> wait,
         delay |-> IF AttemptRaises(answer) = "" THEN 0
                   ELSE SleepBeforeRaise(scraper, answer) + wait
                            + (IF retried THEN SleepBeforeRequest(scraper) ELSE 0)]

\* Variant: only the client's own errors are caught.
CaughtByPageLoop_ClientError(exc) == exc = "ClientError"

\* `except Exception as e:` around the fetch and the parsing of a page.
CaughtByPageLoop(exc) == exc \in ExceptionClasses

\* Variant: the loop is left.
AfterPageFailure_Break == "break"

\* The statement of that except block.
AfterPageFailure == "continue"

NotReturned == [kind |-> "none", n |-> 0]

ReturnedList(n) == [kind |-> "list", n |-> n]

ReturnedStats(n) == [kind |-> "stats", n |-> n]

RaisedToCaller == [kind |-> "raised", n |-> 0]

\* How a page ended: fetched (with its listings), failed for good with every
\* attempt answered by a permanent status, or failed otherwise.
PageFetched(n) == [kind |-> "fetched", listings |-> n]

PageFailed(call) ==
    [kind |-> IF \A i \in 1..Len(call) : IsPermanent(call[i].answer)
              THEN "permanent" ELSE "transient",
     listings |-> 0]

RECURSIVE ListingsOf(_)
\* The listings of the pages that were fetched.
ListingsOf(pages) ==
    IF pages = <<>> THEN 0
    ELSE ListingsOf(SubSeq(pages, 1, Len(pages) - 1)) + pages[Len(pages)].listings

\* scrape_funda_cities(cities, max_pages) or FundaScraper.scrape_search_results
\* (city, max_pages) is called.
S_Run(scraper, ncities, max_pages) ==
    /\ s_pc = "idle"
    /\ scraper = "FundaScraper" => ncities = 1
    /\ s_pc' = "page"
    /\ s_scraper' = scraper
    /\ s_ncities' = ncities
    /\ s_max_pages' = max_pages
    /\ UNCHANGED <<s_city, s_page, s_attempt, s_call, s_requested, s_pages,
                   s_all_listings, s_city_ret, s_total, s_lost, s_ret>>
    /\ UNCHANGED <<store_vars, v_vars, p_vars, c_vars, x_vars>>

\* The loop goes to the next page, or ends and the list is returned.
S_NextPage(all_listings) ==
    IF s_page < s_max_pages
    THEN /\ s_page' = s_page + 1
         /\ UNCHANGED <<s_pc, s_city_ret>>
    ELSE /\ s_pc' = "city_end"
         /\ s_city_ret' = ReturnedList(all_listings)
         /\ UNCHANGED s_page

\* The loop is left and the list is returned.
S_Break ==
    /\ s_pc' = "city_end"
    /\ s_city_ret' = ReturnedList(s_all_listings)
    /\ UNCHANGED s_page

\* One attempt of fetch_page for the page, with what follows it up to the
\* next request: the retry, or the rest of the loop body.
S_Attempt(answer) ==
    LET rec == AttemptRecord(s_scraper, s_attempt + 1, answer)
        call == IF s_attempt = 0 THEN <<rec>> ELSE Append(s_call, rec)
    IN  /\ s_pc = "page"
        /\ s_requested' = s_requested \cup {s_page}
        /\ s_call' = call
        /\ IF AttemptRaises(answer) = ""
           THEN \* html returned, listings parsed
                /\ s_attempt' = 0
                /\ s_pages' = Append(s_pages, PageFetched(answer.listings))
                /\ IF answer.listings = 0
                   THEN S_Break /\ UNCHANGED s_all_listings
                   ELSE /\ s_all_listings' = s_all_listings + answer.listings
                        /\ S_NextPage(s_all_listings + answer.listings)
           ELSE IF rec.retried
           THEN /\ s_attempt' = s_attempt + 1
                /\ UNCHANGED <<s_pc, s_page, s_pages, s_all_listings, s_city_ret>>
           ELSE \* the retry policy gives up: tenacity.RetryError
                /\ s_attempt' = 0
                /\ s_pages' = Append(s_pages, PageFailed(call))
                /\ UNCHANGED s_all_listings
                /\ IF CaughtByPageLoop("RetryError")
                   THEN IF AfterPageFailure = "continue"
                        THEN S_NextPage(s_all_listings)
                        ELSE S_Break
                   ELSE /\ s_pc' = "city_end"
                        /\ s_city_ret' = RaisedToCaller
                        /\ UNCHANGED s_page
        /\ UNCHANGED <<s_scraper, s_max_pages, s_ncities, s_city, s_total, s_lost, s_ret>>
        /\ UNCHANGED <<store_vars, v_vars, p_vars, c_vars, x_vars>>

\* The caller of the page loop.  scrape_funda_cities: the listings, if any,
\* go to process_and_store, which returns its stats or raises; everything
\* raised in the body is caught; then the next city, or the total is
\* returned.  scrape_search_results has no caller in this model: what it
\* returned is what the run returned.
S_CityEnd(stored) ==
    /\ s_pc = "city_end"
    /\ stored = FALSE => (s_scraper = "EnhancedFundaScraper" /\ s_city_ret.kind = "list"
                            /\ s_city_ret.n > 0)
    /\ IF s_scraper = "FundaScraper"
       THEN /\ s_pc' = "done"
            /\ s_ret' = s_city_ret
            /\ UNCHANGED <<s_city, s_page, s_requested, s_pages, s_all_listings,
                           s_city_ret, s_total, s_lost>>
       ELSE LET total == IF s_city_ret.kind = "list" /\ stored
                         THEN s_total + s_city_ret.n ELSE s_total
            IN  /\ s_total' = total
                /\ s_lost' = IF stored THEN s_lost ELSE s_lost + 1
                /\ IF s_city < s_ncities
                   THEN /\ s_pc' = "page"
                        /\ s_city' = s_city + 1
                        /\ s_page' = 1
                        /\ s_requested' = {}
                        /\ s_pages' = <<>>
                        /\ s_all_listings' = 0
                        /\ s_city_ret' = NotReturned
                        /\ UNCHANGED s_ret
                   ELSE /\ s_pc' = "done"
                        /\ s_ret' = ReturnedStats(total)
                        /\ UNCHANGED <<s_city, s_page, s_requested, s_pages,
                                       s_all_listings, s_city_ret>>
    /\ UNCHANGED <<s_scraper, s_max_pages, s_ncities, s_attempt, s_call>>
    /\ UNCHANGED <<store_vars, v_vars, p_vars, c_vars, x_vars>>

-----------------------------------------------------------------------------
(* run_funda_scraper: scrape_all, the caller of the BatchProcessor *)

(* scrape_all calls process_listing for every listing of a city and flush    *)
(* after each city.  It has no try block: an exception of a call, and the    *)
(* CancelledError of a cancelled task, leave it at once; the scraper's       *)
(* session is closed and the processor, with its buffer, is dropped.         *)

\* scrape_all may make its next call: it runs and no call has raised.
RunGoesOn == r_pc = "running" /\ bp_pc = "idle" /\ bp_ret # Some("raised")

\* asyncio.run(scrape_all()) starts; processor = BatchProcessor(...)
R_Start ==
    /\ r_pc = "idle"
    /\ writer = "BatchProcessor"
    /\ r_pc' = "running"
    /\ UNCHANGED <<store_vars, v_vars, p_vars, c_vars, s_vars, m_vars, q_vars, f_vars>>

\* await processor.process_listing(listing)
R_ProcessListing(l) == RunGoesOn /\ BP_ProcessListing(l)

\* await processor.flush()
R_Flush == RunGoesOn /\ BP_Flush

\* The task is cancelled while flush awaits asyncpg.connect: CancelledError is
\* raised at the await, before the try block, and leaves scrape_all.  (A
\* cancellation while executemany is awaited passes through the finally as
\* the exception of BP_ExecutemanyFails does.)
R_Cancel ==
    /\ r_pc = "running"
    /\ bp_pc = "connect"
    /\ bp_pc' = "idle"
    /\ bp_ret' = Some("raised")
    /\ bp_plain' = FALSE
    /\ r_pc' = "aborted"
    /\ UNCHANGED <<writer, property_listings, last_write, ps_vars, v_vars, p_vars, c_vars,
                   s_vars, m_vars, q_vars, f_vars, buffer, bp_call, bp_args, bp_conn, bp_raising, bp_before,
                   bp_added, bp_handoffs, bp_auto, bp_replay, bp_stored>>

\* A call has raised: the exception leaves scrape_all and asyncio.run.
R_Abort ==
    /\ r_pc = "running"
    /\ bp_pc = "idle"
    /\ bp_ret = Some("raised")
    /\ r_pc' = "aborted"
    /\ UNCHANGED <<store_vars, v_vars, p_vars, c_vars, s_vars, m_vars, q_vars, f_vars>>

\* The flush after the last city has returned: scrape_all returns.
R_Finish ==
    /\ RunGoesOn
    /\ bp_call = "flush"
    /\ bp_ret = Some("returned")
    /\ r_pc' = "finished"
    /\ UNCHANGED <<store_vars, v_vars, p_vars, c_vars, s_vars, m_vars, q_vars, f_vars>>

-----------------------------------------------------------------------------
(* Runs of two sources that write to the same table *)

(* Each run stores its listings one statement at a time, as the loop of      *)
(* process_and_store does; every listing carries the name of its source in   *)
(* listing['source'].  The statements of the two runs interleave freely.     *)

\* source = Column(String, nullable=False)  # funda, pararius, etc.
Sources == {"funda", "pararius"}

\* The listing as the scraper of that source builds it.
FromSource(l, src) == [l EXCEPT !.source = Some(src)]

\* The rows of a table, whatever their physical order.
RowSet(t) == {t[i] : i \in 1..Len(t)}

\* The table after one run has stored its list on its own.
StoredAlone(t, src, listings) ==
    LET stored == SelectSeq(listings, LAMBDA l : ~ViolatesConstraint(l))
    IN  UpsertAll(t, [i \in 1..Len(stored) |-> FromSource(stored[i], src)])

\* The two runs start, each with the listings it scraped.
M_Start(lists) ==
    /\ m_pc = "idle"
    /\ m_pc' = "running"
    /\ m_lists' = lists
    /\ UNCHANGED <<m_i, m_table>>
    /\ UNCHANGED <<store_vars, v_vars, p_vars, c_vars, s_vars, r_vars, q_vars, f_vars>>

\* The run of one source executes its next statement.
M_StoreListing(src) ==
    /\ m_pc = "running"
    /\ m_i[src] <= Len(m_lists[src])
    /\ LET listing == FromSource(m_lists[src][m_i[src]], src)
       IN  IF ViolatesConstraint(listing)
           THEN UNCHANGED m_table
           ELSE m_table' = Upsert(m_table, listing)
    /\ m_i' = [m_i EXCEPT ![src] = @ + 1]
    /\ UNCHANGED <<m_pc, m_lists>>
    /\ UNCHANGED <<store_vars, v_vars, p_vars, c_vars, s_vars, r_vars, q_vars, f_vars>>

-----------------------------------------------------------------------------
(* One BatchProcessor shared by two producers *)

(* The calls of the two producers run as tasks of one event loop: a call     *)
(* runs alone up to its next await (asyncpg.connect, conn.executemany,       *)
(* conn.close), where the other producer's call may run.  The listings are   *)
(* told apart by their number in the order of the process_listing calls.     *)

Producers == {"P1", "P2"}

Range(q) == {q[i] : i \in 1..Len(q)}

\* process_listing of a producer: the append, and the entry into flush up to
\* its await of asyncpg.connect.
Q_ProcessListing(p) ==
    /\ q_pc[p] = "idle"
    /\ q_added < MaxAdds
    /\ q_added' = q_added + 1
    /\ q_buffer' = BufferAppend(q_buffer, q_added + 1)
    /\ q_pc' = [q_pc EXCEPT ![p] = IF ShouldFlush(q_buffer') /\ FlushEnter(q_buffer')
                                   THEN "connect" ELSE "idle"]
    /\ UNCHANGED <<q_args, q_raising, q_handed>>
    /\ UNCHANGED <<store_vars, v_vars, p_vars, c_vars, s_vars, r_vars, m_vars, f_vars>>

\* asyncpg.connect returns: the tuple list is built from self.buffer as it is
\* now, and conn.executemany is awaited.
Q_Connect(p) ==
    /\ q_pc[p] = "connect"
    /\ q_args' = [q_args EXCEPT ![p] = q_buffer]
    /\ q_handed' = q_handed \cup Range(q_buffer)
    /\ q_raising' = [q_raising EXCEPT ![p] = FALSE]
    /\ q_pc' = [q_pc EXCEPT ![p] = "executemany"]
    /\ UNCHANGED <<q_buffer, q_added>>
    /\ UNCHANGED <<store_vars, v_vars, p_vars, c_vars, s_vars, r_vars, m_vars, f_vars>>

\* asyncpg.connect raises: the call raises.
Q_ConnectFails(p) ==
    /\ q_pc[p] = "connect"
    /\ q_pc' = [q_pc EXCEPT ![p] = "idle"]
    /\ UNCHANGED <<q_buffer, q_args, q_raising, q_added, q_handed>>
    /\ UNCHANGED <<store_vars, v_vars, p_vars, c_vars, s_vars, r_vars, m_vars, f_vars>>

\* conn.executemany returns: self.buffer = [], whatever the buffer holds by
\* now; then conn.close() is awaited.
Q_Executemany(p) ==
    /\ q_pc[p] = "executemany"
    /\ q_buffer' = <<>>
    /\ q_pc' = [q_pc EXCEPT ![p] = "close"]
    /\ UNCHANGED <<q_args, q_raising, q_added, q_handed>>
    /\ UNCHANGED <<store_vars, v_vars, p_vars, c_vars, s_vars, r_vars, m_vars, f_vars>>

\* conn.executemany raises: the assignment is skipped.
Q_ExecutemanyFails(p) ==
    /\ q_pc[p] = "executemany"
    /\ q_raising' = [q_raising EXCEPT ![p] = TRUE]
    /\ q_pc' = [q_pc EXCEPT ![p] = "close"]
    /\ UNCHANGED <<q_buffer, q_args, q_added, q_handed>>
    /\ UNCHANGED <<store_vars, v_vars, p_vars, c_vars, s_vars, r_vars, m_vars, f_vars>>

\* conn.close() returns: the call returns or raises.
Q_Close(p) ==
    /\ q_pc[p] = "close"
    /\ q_raising' = [q_raising EXCEPT ![p] = FALSE]
    /\ q_pc' = [q_pc EXCEPT ![p] = "idle"]
    /\ UNCHANGED <<q_buffer, q_args, q_added, q_handed>>
    /\ UNCHANGED <<store_vars, v_vars, p_vars, c_vars, s_vars, r_vars, m_vars, f_vars>>

-----------------------------------------------------------------------------
(* Concurrent fetch_page calls on one scraper: self.semaphore *)

(* fetch_page runs each attempt inside `async with self.semaphore`: the slot *)
(* is taken before the request delay and held through the request and, on a  *)
(* 429, through the sleep before the raise.  The wait of the retry policy is *)
(* spent outside, without a slot.                                            *)

Tasks == 1..MaxTasks

\* The tasks that hold a slot of the semaphore.
Holding == {t \in Tasks : f_pc[t] \in {"delay", "request", "limited"}}

\* The tasks whose HTTP request is in flight.
InFlight == {t \in Tasks : f_pc[t] = "request"}

\* Variant: release() at the end of the body.
SlotReleased_OnReturn(exc) == exc = ""

\* __aexit__ of `async with self.semaphore`: release() on return and on
\* every exception.
SlotReleased(exc) == TRUE

\* The attempt leaves the `async with` block, by return or with an exception.
F_Exit(t, exc) ==
    /\ f_sem' = IF SlotReleased(exc) THEN f_sem + 1 ELSE f_sem
    /\ f_pc' = [f_pc EXCEPT ![t] = IF exc = "" THEN "done"
                                   ELSE IF f_attempt[t] < StopAfterAttempt THEN "wait"
                                   ELSE "failed"]

\* A task calls fetch_page.
F_Call(t) ==
    /\ f_pc[t] = "idle"
    /\ f_pc' = [f_pc EXCEPT ![t] = "acquire"]
    /\ f_attempt' = [f_attempt EXCEPT ![t] = 1]
    /\ UNCHANGED f_sem
    /\ UNCHANGED <<store_vars, v_vars, p_vars, c_vars, s_vars, r_vars, m_vars, q_vars>>

\* semaphore.acquire() returns: a slot was free.
F_Acquire(t) ==
    /\ f_pc[t] = "acquire"
    /\ f_sem > 0
    /\ f_sem' = f_sem - 1
    /\ f_pc' = [f_pc EXCEPT ![t] = "delay"]
    /\ UNCHANGED f_attempt
    /\ UNCHANGED <<store_vars, v_vars, p_vars, c_vars, s_vars, r_vars, m_vars, q_vars>>

\* The request delay is over: session.get(url) sends the request.
F_Send(t) ==
    /\ f_pc[t] = "delay"
    /\ f_pc' = [f_pc EXCEPT ![t] = "request"]
    /\ UNCHANGED <<f_attempt, f_sem>>
    /\ UNCHANGED <<store_vars, v_vars, p_vars, c_vars, s_vars, r_vars, m_vars, q_vars>>

\* The request is answered: on 429 the attempt sleeps, still in the block;
\* otherwise it returns the page or raises.
F_Answer(t, answer) ==
    /\ f_pc[t] = "request"
    /\ IF answer.status = 429
       THEN /\ f_pc' = [f_pc EXCEPT ![t] = "limited"]
            /\ UNCHANGED f_sem
       ELSE F_Exit(t, AttemptRaises(answer))
    /\ UNCHANGED f_attempt
    /\ UNCHANGED <<store_vars, v_vars, p_vars, c_vars, s_vars, r_vars, m_vars, q_vars>>

\* The sleep after a 429 is over: raise aiohttp.ClientError("Rate limited")
F_RateLimited(t) ==
    /\ f_pc[t] = "limited"
    /\ F_Exit(t, "ClientError")
    /\ UNCHANGED f_attempt
    /\ UNCHANGED <<store_vars, v_vars, p_vars, c_vars, s_vars, r_vars, m_vars, q_vars>>

\* The wait of the retry policy is over: the next attempt.
F_Retry(t) ==
    /\ f_pc[t] = "wait"
    /\ f_pc' = [f_pc EXCEPT ![t] = "acquire"]
    /\ f_attempt' = [f_attempt EXCEPT ![t] = @ + 1]
    /\ UNCHANGED f_sem
    /\ UNCHANGED <<store_vars, v_vars, p_vars, c_vars, s_vars, r_vars, m_vars, q_vars>>

\* The call has returned or raised to its caller.
F_Return(t) ==
    /\ f_pc[t] \in {"done", "failed"}
    /\ f_pc' = [f_pc EXCEPT ![t] = "idle"]
    /\ f_attempt' = [f_attempt EXCEPT ![t] = 0]
    /\ UNCHANGED f_sem
    /\ UNCHANGED <<store_vars, v_vars, p_vars, c_vars, s_vars, r_vars, m_vars, q_vars>>

-----------------------------------------------------------------------------
(* Specifications *)

Init ==
    /\ writer \in {"FundaDataProcessor", "BatchProcessor"}
    /\ property_listings = <<>>
    /\ last_write = [sid \in SourceIds |-> None]
    /\ ps_pc = "idle"
    /\ ps_listings = <<>>
    /\ ps_i = 1
    /\ ps_stats = ZeroStats
    /\ ps_conn = FALSE
    /\ ps_ret = NoCall
    /\ ps_before = <<>>
    /\ ps_replay = FALSE
    /\ buffer = <<>>
    /\ bp_pc = "idle"
    /\ bp_call = "none"
    /\ bp_args = <<>>
    /\ bp_conn = FALSE
    /\ bp_raising = FALSE
    /\ bp_ret = None
    /\ bp_before = <<>>
    /\ bp_added = 0
    /\ bp_handoffs = <<>>
    /\ bp_auto = 0
    /\ bp_plain = TRUE
    /\ bp_replay = FALSE
    /\ bp_stored = FALSE
    /\ v_listing = <<>>
    /\ v_result = FALSE
    /\ p_fn = "none"
    /\ p_text = <<>>
    /\ p_result = None
    /\ c_pc = "idle"
    /\ c_script = <<>>
    /\ c_requests = 0
    /\ c_data = EmptyFrame
    /\ c_stats = None
    /\ s_pc = "idle"
    /\ s_scraper = "EnhancedFundaScraper"
    /\ s_max_pages = 1
    /\ s_ncities = 1
    /\ s_city = 1
    /\ s_page = 1
    /\ s_attempt = 0
    /\ s_call = <<>>
    /\ s_requested = {}
    /\ s_pages = <<>>
    /\ s_all_listings = 0
    /\ s_city_ret = NotReturned
    /\ s_total = 0
    /\ s_lost = 0
    /\ s_ret = NotReturned
    /\ r_pc = "idle"
    /\ m_pc = "idle"
    /\ m_lists = [src \in Sources |-> <<>>]
    /\ m_i = [src \in Sources |-> 1]
    /\ m_table = <<>>
    /\ q_buffer = <<>>
    /\ q_pc = [p \in Producers |-> "idle"]
    /\ q_args = [p \in Producers |-> <<>>]
    /\ q_raising = [p \in Producers |-> FALSE]
    /\ q_added = 0
    /\ q_handed = {}
    /\ f_pc = [t \in Tasks |-> "idle"]
    /\ f_attempt = [t \in Tasks |-> 0]
    /\ f_sem = max_concurrent

Next ==
    \/ \E listings \in Batches : PS_Call(listings)
    \/ PS_Connect
    \/ PS_ConnectFails
    \/ PS_StoreListing
    \/ PS_Close
    \/ \E l \in ListingInputs : BP_ProcessListing(l)
    \/ BP_Flush
    \/ BP_Connect
    \/ BP_ConnectFails
    \/ BP_Executemany
    \/ BP_ExecutemanyFails
    \/ BP_Close

Spec == Init /\ [][Next]_vars

NextValidate == \E listing \in ValidateInputs : Validate(listing)

SpecValidate == Init /\ [][NextValidate]_vars

NextParse ==
    \/ \E text \in PriceTexts : ParsePriceText(text)
    \/ \E text \in PriceTexts : ParsePrice(text)

SpecParse == Init /\ [][NextParse]_vars

NextCollect ==
    \/ \E script \in AnswerScripts : CBS_Start(script)
    \/ CBS_Probe
    \/ CBS_Fetch
    \/ CBS_Stats

SpecCollect == Init /\ [][NextCollect]_vars

NextScrape ==
    \/ \E scraper \in Scrapers, ncities \in 1..MaxCities, max_pages \in 1..MaxPages :
          S_Run(scraper, ncities, max_pages)
    \/ \E answer \in PageAnswers : S_Attempt(answer)
    \/ \E stored \in BOOLEAN : S_CityEnd(stored)

SpecScrape == Init /\ [][NextScrape]_vars

NextRun ==
    \/ R_Start
    \/ \E l \in ListingInputs : R_ProcessListing(l)
    \/ R_Flush
    \/ R_Cancel
    \/ R_Abort
    \/ R_Finish
    \/ (r_pc = "running" /\ BP_Connect)
    \/ (r_pc = "running" /\ BP_ConnectFails)
    \/ (r_pc = "running" /\ BP_Executemany)
    \/ (r_pc = "running" /\ BP_ExecutemanyFails)
    \/ (r_pc = "running" /\ BP_Close)

SpecRun == Init /\ [][NextRun]_vars

NextSources ==
    \/ \E lists \in [Sources -> Batches] : M_Start(lists)
    \/ \E src \in Sources : M_StoreListing(src)

SpecSources == Init /\ [][NextSources]_vars

NextShared ==
    \/ \E p \in Producers : Q_ProcessListing(p)
    \/ \E p \in Producers : Q_Connect(p)
    \/ \E p \in Producers : Q_ConnectFails(p)
    \/ \E p \in Producers : Q_Executemany(p)
    \/ \E p \in Producers : Q_ExecutemanyFails(p)
    \/ \E p \in Producers : Q_Close(p)

SpecShared == Init /\ [][NextShared]_vars

NextFetch ==
    \/ \E t \in Tasks : F_Call(t)
    \/ \E t \in Tasks : F_Acquire(t)
    \/ \E t \in Tasks : F_Send(t)
    \/ \E t \in Tasks, answer \in PageAnswers : F_Answer(t, answer)
    \/ \E t \in Tasks : F_RateLimited(t)
    \/ \E t \in Tasks : F_Retry(t)
    \/ \E t \in Tasks : F_Return(t)

SpecFetch == Init /\ [][NextFetch]_vars

-----------------------------------------------------------------------------
(* Properties *)

RowsOf(l) == Conflicting(property_listings, l)

WellFormed(q) == SelectSeq(q, LAMBDA l : ~ViolatesConstraint(l))

\* process_and_store has run its loop to the end.
PS_LoopDone == ps_pc = "loop" /\ ps_i > Len(ps_listings)

\* C1: after any sequence of writes of listings of one (source, source_id),
\* the table holds exactly one row of that identity, and the row's price and
\* scraped_at are those of the last listing written; an identity never
\* written has no row.
C1_LastWriteWins ==
    \A sid \in SourceIds :
        IF last_write[sid] = None
        THEN \A i \in 1..Len(property_listings) : property_listings[i].source_id # Some(sid)
        ELSE LET l == last_write[sid][1]
             IN  /\ Cardinality(RowsOf(l)) = 1
                 /\ \A i \in RowsOf(l) :
                        /\ property_listings[i].price = l.price
                        /\ property_listings[i].scraped_at = l.scraped_at

\* Listing A was written by two scrapes, next to the row of listing B.
C1_Witness ==
    /\ Len(property_listings) = 2
    /\ last_write["A"] = Some(MkListing("A", Some("Test Address 123"), 2))
    /\ \E i \in 1..2 : property_listings[i].size_m2 = Snapshot(1).size_m2
                          /\ property_listings[i].source_id = Some("A")

\* C2: process_and_store counts a stored listing as inserted exactly when no
\* row of its identity existed at the statement, and as updated otherwise.
C2_Claim ==
    [][(ps_pc = "loop" /\ ps_i' = ps_i + 1 /\ ~ViolatesConstraint(ps_listings[ps_i]))
          => IF Conflicting(property_listings, ps_listings[ps_i]) = {}
             THEN ps_stats' = [ps_stats EXCEPT !.inserted = @ + 1]
             ELSE ps_stats' = [ps_stats EXCEPT !.updated = @ + 1]]_vars

\* C3: a writer that is handed the content it has just stored leaves the
\* table as it was: the same rows with the same fields, and as many.
C3_ReplayIdempotent ==
    /\ (PS_LoopDone /\ ps_replay) => property_listings = ps_before
    /\ (bp_pc = "close" /\ ~bp_raising /\ bp_replay) => property_listings = bp_before

\* process_and_store has stored, for the second time in a row, a list that
\* writes listing A twice and listing B.
C3_Witness ==
    /\ PS_LoopDone
    /\ ps_replay
    /\ Len(ps_listings) = MaxBatch
    /\ ps_stats.errors = 0
    /\ property_listings # <<>>

\* C4 as claimed: a row written again carries the price, size_m2, rooms and
\* scraped_at of the listing written last.
C4_Claim ==
    \A sid \in SourceIds :
        last_write[sid] # None =>
            LET l == last_write[sid][1]
            IN  \A i \in RowsOf(l) :
                    /\ property_listings[i].price = l.price
                    /\ property_listings[i].size_m2 = l.size_m2
                    /\ property_listings[i].rooms = l.rooms
                    /\ property_listings[i].scraped_at = l.scraped_at

\* C4, amended: a write leaves every stored row its source, source_id,
\* size_m2 and rooms, and the row of a listing written in the step takes the
\* listing's price and scraped_at.
C4_Amended ==
    [][\A i \in 1..Len(property_listings) :
          /\ i <= Len(property_listings')
          /\ property_listings'[i].source = property_listings[i].source
          /\ property_listings'[i].source_id = property_listings[i].source_id
          /\ property_listings'[i].size_m2 = property_listings[i].size_m2
          /\ property_listings'[i].rooms = property_listings[i].rooms
          /\ LET sid == property_listings[i].source_id[1]
             IN  last_write'[sid] # last_write[sid] =>
                     /\ property_listings'[i].price = last_write'[sid][1].price
                     /\ property_listings'[i].scraped_at = last_write'[sid][1].scraped_at]_vars

\* The row of listing A has the price and time of the second scrape and the
\* size and rooms of the first.
C4_Witness ==
    \E i \in 1..Len(property_listings) :
        /\ property_listings[i].source_id = Some("A")
        /\ property_listings[i].price = Snapshot(2).price
        /\ property_listings[i].scraped_at = Snapshot(2).scraped_at
        /\ property_listings[i].size_m2 = Snapshot(1).size_m2
        /\ property_listings[i].rooms = Snapshot(1).rooms

\* C5: in both writers a listing whose write fails does not abort the batch:
\* the table is what storing the other listings of the batch, in order,
\* makes of it, and process_and_store counts one error per failed listing.
C5_Claim ==
    /\ PS_LoopDone =>
          /\ property_listings = UpsertAll(ps_before, WellFormed(ps_listings))
          /\ ps_stats.errors = Len(ps_listings) - Len(WellFormed(ps_listings))
    /\ (bp_pc = "close" /\ WellFormed(bp_args) # bp_args) =>
          property_listings = UpsertAll(bp_before, WellFormed(bp_args))

\* C6: while every flush succeeds and only process_listing is called, after
\* k calls floor(k / batch_size) flushes have been started, each has handed
\* over batch_size listings, and k mod batch_size listings are pending.
C6_AutoFlushCount ==
    (writer = "BatchProcessor" /\ bp_plain /\ bp_pc = "idle") =>
        /\ bp_auto = bp_added \div BatchSize
        /\ Len(buffer) = bp_added % BatchSize
        /\ Len(bp_handoffs) = bp_auto
        /\ \A h \in 1..Len(bp_handoffs) : Len(bp_handoffs[h]) = BatchSize

\* A full batch has been flushed and a further listing is pending.
C6_Witness ==
    /\ bp_plain
    /\ bp_pc = "idle"
    /\ bp_auto >= 1
    /\ buffer # <<>>
    /\ property_listings # <<>>

\* The executemany calls that were handed the dict of the n-th process_listing.
Handed(n) ==
    {h \in 1..Len(bp_handoffs) : \E j \in 1..Len(bp_handoffs[h]) : bp_handoffs[h][j] = n}

\* C7: no listing is handed to storage by two flushes, and once a flush called
\* after the last process_listing has returned, every listing has been handed
\* over by exactly one.
C7_Claim ==
    \A n \in 1..bp_added :
        /\ Cardinality(Handed(n)) <= 1
        /\ (bp_pc = "idle" /\ bp_call = "flush" /\ bp_ret = Some("returned"))
               => Cardinality(Handed(n)) = 1

\* C8: once flush has handed the batch to executemany and executemany has
\* ended, by returning or by raising, the buffer is empty.
C8_Claim == bp_pc = "close" => buffer = <<>>

\* C9: the buffer never holds more than batch_size listings, and fewer
\* whenever process_listing has returned.
C9_Claim ==
    /\ Len(buffer) <= BatchSize
    /\ (bp_pc = "idle" /\ bp_call = "process_listing" /\ bp_ret = Some("returned"))
           => Len(buffer) < BatchSize

\* C10: validate_listing is false for a dict in which source_id, address or
\* city is missing, None or empty, and true for a dict that has the three
\* when its price and size_m2 are None.
C10_RequiredFields ==
    /\ (\E f \in {"source_id", "address", "city"} :
            \/ f \notin DOMAIN v_listing
            \/ v_listing[f] = None
            \/ v_listing[f] = Some(""))
           => v_result = FALSE
    /\ (/\ \A f \in {"source_id", "address", "city"} :
               f \in DOMAIN v_listing /\ v_listing[f] = Some("x")
        /\ Get(v_listing, "price") = None
        /\ Get(v_listing, "size_m2") = None)
           => v_result = TRUE

\* A dict with the three identity fields, price None and size_m2 None was accepted.
C10_Witness ==
    /\ v_result = TRUE
    /\ DOMAIN v_listing = ValidateFields
    /\ v_listing["price"] = None
    /\ v_listing["size_m2"] = None

\* C11: for a dict with the three identity fields and a price that is not
\* None, validate_listing is true exactly when 50,000 <= price <= 5,000,000.
C11_Claim ==
    (/\ \A f \in {"source_id", "address", "city"} :
            f \in DOMAIN v_listing /\ v_listing[f] = Some("x")
     /\ Get(v_listing, "price") # None)
        => (v_result <=> (MinPrice <= v_listing["price"][1] /\ v_listing["price"][1] <= MaxPrice))

\* A text of digits, a point and one or two digits, as "12.50".
IsDecimalForm(q) ==
    /\ Count(q, ".") = 1
    /\ \A i \in 1..Len(q) : q[i] \in Digits \cup {"."}
    /\ q[1] # "."
    /\ Len(SecondPart(q)) \in {1, 2}

\* C12: parse_price_text reads a point followed by at most 2 digits as the
\* decimal point: a text in decimal form parses to the number it writes.
C12_Claim ==
    (p_fn = "parse_price_text" /\ IsDecimalForm(p_text)) => p_result = Some(FloatOf(p_text))

\* The amount of a Dutch price text: digits in groups of three after each
\* point, as "425.000" and "1.250.000".
IsDutchAmount(q) ==
    /\ q # <<>>
    /\ q[1] \in Digits
    /\ \A i \in 1..Len(q) :
          \/ q[i] \in Digits
          \/ /\ q[i] = "."
             /\ i + 3 <= Len(q)
             /\ \A j \in (i + 1)..(i + 3) : q[j] \in Digits
             /\ (i + 4 <= Len(q) => q[i + 4] = ".")

\* A Dutch price text: the amount, after "€ " or nothing, before " k.k." or nothing.
IsDutchPrice(q) ==
    \E pre \in {<<>>, <<"€", " ">>}, post \in {<<>>, <<" ", "k", ".", "k", ".">>} :
        /\ Len(q) > Len(pre) + Len(post)
        /\ SubSeq(q, 1, Len(pre)) = pre
        /\ SubSeq(q, Len(q) - Len(post) + 1, Len(q)) = post
        /\ IsDutchAmount(SubSeq(q, Len(pre) + 1, Len(q) - Len(post)))

\* C13: parse_price_text drops the currency symbol and the k.k. suffix and
\* reads a point before three digits as a thousands separator: a Dutch price
\* text parses to the whole number its digits write.
C13_DutchPrice ==
    (p_fn = "parse_price_text" /\ IsDutchPrice(p_text))
        => p_result = Some(<<DigitsValue(SelectSeq(p_text, LAMBDA c : c \in Digits)), 0>>)

\* '€ 425.000 k.k.' was parsed to 425000.0.
C13_Witness ==
    /\ p_fn = "parse_price_text"
    /\ p_text = DutchExample
    /\ p_result = Some(<<425000, 0>>)

\* C14: FundaScraper.parse_price returns the amount of a Dutch price text,
\* 425000.0 for '€ 425.000 k.k.'.
C14_Claim ==
    (p_fn = "parse_price" /\ IsDutchPrice(p_text))
        => p_result = Some(<<DigitsValue(SelectSeq(p_text, LAMBDA c : c \in Digits)), 0>>)

\* C15: whatever the API answers to the probe (200, another status, an
\* exception) and to the fetch (records, no records, an error status, an
\* exception), collect_cbs_data_with_fallback returns a frame that is not empty.
C15_NeverEmpty ==
    c_pc \in {"stats", "done"} => c_data.rows > 0

\* The probe was answered 200, the fetch failed with an exception, and the
\* frame returned is the mock data.
C15_Witness ==
    /\ c_pc = "stats"
    /\ c_requests = 2
    /\ c_script[2] = ClientException
    /\ c_data = generate_mock_cbs_data
    /\ c_data.rows > 0

\* C16: when the API answers 429 to three requests in a row, the run returns
\* a summary with at least one record and names the mock generator as source.
C16_RateLimited ==
    (/\ c_pc = "done"
     /\ Len(c_script) >= 3
     /\ \A i \in 1..3 : c_script[i] = HttpResponse(429, 0))
        => /\ c_stats # None
           /\ c_stats[1].records_collected > 0
           /\ c_stats[1].data_source = "cbs_mock"

\* A run whose every request would be answered 429 has finished, with the
\* mock data.
C16_Witness ==
    /\ c_pc = "done"
    /\ Len(c_script) >= 3
    /\ \A i \in 1..3 : c_script[i] = HttpResponse(429, 0)
    /\ c_stats = Some([records_collected |-> Len(regions) * Len(periods), data_source |-> "cbs_mock"])

\* The attempts of the call after which the retry policy waited.
Retries == {i \in DOMAIN s_call : s_call[i].retried}

\* C17: in one fetch_page call, the wait before each retry is strictly longer
\* than the wait before the retry before it.
C17_Claim ==
    \A i, j \in Retries : i < j => s_call[j].wait > s_call[i].wait

\* C17, amended: in one fetch_page call, the wait before each retry is at
\* least as long as the wait before the retry before it, and every wait is
\* between 4 and 10 seconds.
C17_Amended ==
    /\ \A i, j \in Retries : i < j => s_call[j].wait >= s_call[i].wait
    /\ \A i \in Retries : 4 <= s_call[i].wait /\ s_call[i].wait <= 10

\* A call has made its three attempts, with a wait of 4 seconds before each
\* of the two retries.
C17_Witness ==
    /\ Len(s_call) = 3
    /\ Retries = {1, 2}
    /\ s_call[1].wait = 4
    /\ s_call[2].wait = 4

\* C18: in EnhancedFundaScraper.fetch_page the delay after an attempt answered
\* 429 is strictly longer than the delay after an attempt that failed in
\* another way, whether a retry follows the attempt or not.
C18_LongerAfter429 ==
    s_scraper = "EnhancedFundaScraper" =>
        \A i, j \in DOMAIN s_call :
            (/\ s_call[i].answer.status = 429
             /\ AttemptRaises(s_call[j].answer) # ""
             /\ s_call[j].answer.status # 429)
                => s_call[i].delay > s_call[j].delay

\* A call timed out on its first attempt and was answered 429 on its last:
\* 6 seconds passed before the retry, 10 before the giving up.
C18_Witness ==
    /\ s_scraper = "EnhancedFundaScraper"
    /\ Len(s_call) = 3
    /\ s_call[1].answer = Timeout
    /\ s_call[1].delay = 6
    /\ s_call[3].answer = ErrorStatus(429)
    /\ s_call[3].delay = 10

\* The pages of the city that failed with a permanent error.
PermanentPages == {q \in DOMAIN s_pages : s_pages[q].kind = "permanent"}

\* The page loop has returned.
LoopReturned == s_pc \in {"city_end", "done"}

\* C19: once a page has failed with a permanent error, no later page is
\* requested, and the loop returns the listings of the pages before it.
C19_Claim ==
    \A q \in PermanentPages :
        /\ \A r \in s_requested : r <= q
        /\ LoopReturned => s_city_ret = ReturnedList(ListingsOf(SubSeq(s_pages, 1, q - 1)))

\* C19, amended: after a page has failed with a permanent error the loop goes
\* on with the next page; it ends at max_pages or at a fetched page without
\* listings, and returns the listings of all the pages fetched, before and
\* after the failed one, and nothing else.
C19_Amended ==
    PermanentPages # {} =>
        /\ s_pc = "page" => s_page = Len(s_pages) + 1 /\ s_page <= s_max_pages
        /\ LoopReturned =>
              /\ \/ Len(s_pages) = s_max_pages
                 \/ s_pages[Len(s_pages)] = PageFetched(0)
              /\ s_requested = 1..Len(s_pages)
              /\ s_city_ret = ReturnedList(ListingsOf(s_pages))

\* Page 2 failed with a permanent error between two pages that were fetched,
\* and the loop returned the listings of both.
C19_Witness ==
    /\ s_pc = "city_end"
    /\ Len(s_pages) = 3
    /\ s_pages[1] = PageFetched(1)
    /\ s_pages[2].kind = "permanent"
    /\ s_pages[3] = PageFetched(1)
    /\ s_city_ret = ReturnedList(2)

\* C20: whatever fails in the fetching, the page loop returns a list and the
\* run of scrape_funda_cities returns its stats: nothing is raised to a caller.
C20_NoRunFailure ==
    /\ s_city_ret.kind # "raised"
    /\ s_ret.kind # "raised"
    /\ s_pc = "city_end" => s_city_ret.kind = "list"
    /\ s_pc = "done" =>
          s_ret.kind = IF s_scraper = "EnhancedFundaScraper" THEN "stats" ELSE "list"

\* A run over several cities and pages has returned, every attempt on every
\* page of the last city having failed with a transient error.
C20_Witness ==
    /\ s_pc = "done"
    /\ s_scraper = "EnhancedFundaScraper"
    /\ s_ncities >= 2
    /\ s_max_pages >= 2
    /\ Len(s_pages) = s_max_pages
    /\ \A q \in DOMAIN s_pages : s_pages[q].kind = "transient"
    /\ \A i \in DOMAIN s_call : ~IsPermanent(s_call[i].answer)
    /\ Len(s_call) = StopAfterAttempt
    /\ s_city_ret = ReturnedList(0)
    /\ s_ret = ReturnedStats(0)

\* C21: when the connection for a batch cannot be acquired, the run of
\* scrape_funda_cities does not return its summary as if nothing had happened:
\* a run that lost a batch does not end with the stats.
C21_Claim ==
    (s_pc = "done" /\ s_lost > 0) => s_ret.kind # "stats"

\* C22: a connection is open only while its call is between connect and
\* close; when process_and_store or flush has returned or raised, whatever
\* happened to the rows, its connection is closed.
C22_ConnClosed ==
    /\ ps_conn => ps_pc = "loop"
    /\ bp_conn => bp_pc \in {"executemany", "close"}
    /\ ps_pc = "idle" => ~ps_conn
    /\ bp_pc = "idle" => ~bp_conn

\* A flush got its connection, its executemany raised, flush raised, and the
\* connection is closed.
C22_Witness ==
    /\ bp_pc = "idle"
    /\ bp_ret = Some("raised")
    /\ Len(bp_handoffs) = 1
    /\ bp_args # <<>>
    /\ ~bp_stored
    /\ ~bp_conn

RECURSIVE Concat(_)
\* The batches of successive handoffs, one after the other.
Concat(hs) == IF hs = <<>> THEN <<>> ELSE Head(hs) \o Concat(Tail(hs))

\* The first n listings in the order process_listing received them.
Received(n) == [i \in 1..n |-> i]

\* C23: in a run of scrape_all the batches handed over by the successive
\* flushes, one after the other, are the listings in the order process_listing
\* received them: always the first so many, followed by the pending ones, and
\* all of them once the run has finished.
C23_ScrapeOrder ==
    r_pc # "idle" =>
        /\ Concat(bp_handoffs) = Received(Len(Concat(bp_handoffs)))
        /\ RunGoesOn => Concat(bp_handoffs) \o Oids(buffer) = Received(bp_added)
        /\ r_pc = "finished" => Concat(bp_handoffs) = Received(bp_added)

\* A run has finished after two flushes that handed over three listings.
C23_Witness ==
    /\ r_pc = "finished"
    /\ Len(bp_handoffs) = 2
    /\ bp_added = 3
    /\ Len(property_listings) >= 1

\* C26: when a run is cancelled or aborted, the listings pending in the
\* buffer of its BatchProcessor have been flushed: none is left in the buffer
\* at teardown.
C26_Claim ==
    r_pc = "aborted" => buffer = <<>>

\* Both runs have executed all their statements.
BothRunsDone == m_pc = "running" /\ \A src \in Sources : m_i[src] > Len(m_lists[src])

\* C24: when the runs of two sources have written to the same table, the rows
\* stored are those of the one run after the other, however the statements of
\* the two interleaved.
C24_OrderIndependent ==
    BothRunsDone =>
        RowSet(m_table) =
            RowSet(StoredAlone(StoredAlone(<<>>, "funda", m_lists["funda"]),
                               "pararius", m_lists["pararius"]))

\* Both runs wrote listing A, one of them twice, and the table holds a row of
\* A for each source.
C24_Witness ==
    /\ BothRunsDone
    /\ Len(m_lists["funda"]) = MaxBatch
    /\ m_lists["pararius"] # <<>>
    /\ Len(m_table) = 2
    /\ \A i \in 1..2 : m_table[i].source_id = Some("A")
    /\ m_table[1].source = Some("pararius")
    /\ m_table[2].source = Some("funda")
    /\ m_table[2].price = Snapshot(2).price

ProbeSucceeded == c_script[1].kind = "response" /\ c_script[1].status = 200

\* The collection has returned its frame.
Collected == c_pc \in {"stats", "done"}

\* C27: after a successful probe the attempt fetches and ends with the real
\* data, and the mock data are generated only after the probe has failed.
C27_Claim ==
    Collected =>
        /\ ProbeSucceeded => c_data.source = "cbs_test"
        /\ c_data.source = "cbs_mock" => ~ProbeSucceeded

\* C27, amended: the probe is one request and is not retried.  When it fails
\* the mock data are generated at once; when it succeeds the data are fetched
\* with a second request, and the attempt ends with the real data if that
\* request is answered 200 with at least one record, with the mock data
\* otherwise.
C27_Amended ==
    /\ c_pc = "fetch" => ProbeSucceeded /\ c_requests = 1
    /\ Collected =>
          IF ~ProbeSucceeded
          THEN c_requests = 1 /\ c_data = generate_mock_cbs_data
          ELSE /\ c_requests = 2
               /\ IF /\ c_script[2].kind = "response"
                     /\ c_script[2].status = 200
                     /\ c_script[2].body > 0
                  THEN c_data = DataFrame(c_script[2].body, "cbs_test")
                  ELSE c_data = generate_mock_cbs_data

\* The probe succeeded, the fetch was answered 404, and the attempt ended
\* with the mock data.
C27_Witness ==
    /\ c_pc = "done"
    /\ ProbeSucceeded
    /\ c_script[2] = HttpResponse(404, 0)
    /\ c_requests = 2
    /\ c_data.source = "cbs_mock"

\* C28: with two producers on one BatchProcessor no listing is lost: every
\* listing process_listing has received is pending in the buffer or has been
\* handed to storage by some flush.
C28_Claim ==
    \A n \in 1..q_added : n \in Range(q_buffer) \/ n \in q_handed

\* C29: when process_and_store returns after it got its connection, the
\* three counters of its stats add up to the number of listings of the batch;
\* for an empty batch it returns the three counters as 0 and no connection is
\* asked for or opened.
C29_StatsAddUp ==
    /\ (ps_pc = "idle" /\ ps_ret.kind = "returned") =>
          ps_ret.stats.inserted + ps_ret.stats.updated + ps_ret.stats.errors = Len(ps_listings)
    /\ ps_listings = <<>> =>
          /\ ps_pc = "idle"
          /\ ~ps_conn
          /\ ps_ret.kind = "returned" => ps_ret.stats = ZeroStats

\* A batch of a complete listing and one without address has returned one
\* row stored and one error.
C29_Witness ==
    /\ ps_pc = "idle"
    /\ ps_ret.kind = "returned"
    /\ Len(ps_listings) = 2
    /\ ps_ret.stats.errors = 1
    /\ ps_ret.stats.inserted + ps_ret.stats.updated = 1

\* C30: with concurrent fetch_page calls the requests in flight are never
\* more than max_concurrent, and every slot is either free or held by an
\* attempt in progress: an attempt that has ended, however it ended, has
\* given its slot back.
C30_SlotsAccounted ==
    /\ Cardinality(InFlight) <= max_concurrent
    /\ f_sem >= 0
    /\ f_sem + Cardinality(Holding) = max_concurrent

\* One call has failed on all its attempts, and max_concurrent requests of
\* other calls are in flight.
C30_Witness ==
    /\ \E t \in Tasks : f_pc[t] = "failed" /\ f_attempt[t] = StopAfterAttempt
    /\ Cardinality(InFlight) = max_concurrent
    /\ f_sem = 0

====
